---- MODULE Spec2Model ----
(***************************************************************************)
(* gsl::span<ElementType, Extent> (include/span.h): a non-owning view over *)
(* a contiguous run of elements.  A view is a data pointer plus an extent  *)
(* instance; every operation is a function of the view and its arguments   *)
(* that returns a new view or fails an Expects() check.                    *)
(*                                                                         *)
(* Addresses are integers counted in elements, nullptr is address 0.       *)
(* index_type (std::ptrdiff_t) is a two's complement integer of IndexBits  *)
(* bits.  Signed overflow and the distance of two pointers that are not    *)
(* into the same array are undefined behaviour: the result is any value of *)
(* index_type.                                                             *)
(***************************************************************************)
EXTENDS Integers, FiniteSets, Sequences, TLC

VARIABLES cur, call

vars == <<cur, call>>

(* ------------------------------ bounds -------------------------------- *)

\* width of index_type in bits
IndexBits == 4
\* length of the caller's buffer, in elements
BufLen == 3
\* address of the caller's buffer
BufBase == 1

MaxIndex == 2^(IndexBits - 1) - 1
MinIndex == -(2^(IndexBits - 1))
index_type == MinIndex..MaxIndex

\* the part of the address space the model follows pointers into
MaxAddr == BufBase + BufLen + MaxIndex
InAddressSpace(p) == p \in 0..MaxAddr

(* ------------------------- constants and types ------------------------ *)

dynamic_extent == -1

nullptr == 0

\* the pointers a caller holds: null, and into (or one past) its buffer
Pointers == {nullptr} \cup (BufBase..(BufBase + BufLen))

\* the extents a span type of the model is instantiated with
Extents == {dynamic_extent} \cup (0..BufLen)

(* --------------------------- element types ---------------------------- *)

\* an element type is a base type and a const qualifier
TypeNames == {"int", "unsigned", "short", "char", "uchar", "pD", "pB", "pcB", "S"}
Types == [name : TypeNames, const : BOOLEAN]

\* std::is_integral (cv-qualification is ignored)
is_integral(T) == T.name \in {"int", "unsigned", "short", "char", "uchar"}

\* std::is_pointer: Derived*, Base*, const Base*
is_pointer(T) == T.name \in {"pD", "pB", "pcB"}

sizeof(T) ==
    CASE T.name \in {"int", "unsigned"} -> 4
      [] T.name = "short" -> 2
      [] T.name \in {"char", "uchar"} -> 1
      [] OTHER -> 8

alignof(T) ==
    CASE T.name \in {"int", "unsigned"} -> 4
      [] T.name = "short" -> 2
      [] T.name \in {"char", "uchar"} -> 1
      [] OTHER -> 8

\* std::is_convertible: a value of From converts implicitly to To.  The
\* conversion copies the value, so top-level const plays no part.
is_convertible(From, To) ==
    \/ From.name = To.name
    \/ is_integral(From) /\ is_integral(To)
    \/ <<From.name, To.name>> \in {<<"pD", "pB">>, <<"pD", "pcB">>, <<"pB", "pcB">>}

\* std::is_same<From, std::remove_cv_t<To>>
is_same_remove_cv(From, To) == From = [name |-> To.name, const |-> FALSE]

is_allowed_pointer_conversion(From, To) ==
    /\ is_pointer(From)
    /\ is_pointer(To)
    /\ is_convertible(From, To)

is_allowed_integral_conversion(From, To) ==
    /\ is_integral(From)
    /\ is_integral(To)
    /\ sizeof(From) = sizeof(To)
    /\ alignof(From) = alignof(To)
    /\ is_convertible(From, To)

\* primary template and the two partial specialisations for To = char and
\* To = const char
is_allowed_element_type_conversion(From, To) ==
    IF To.name = "char" /\ ~To.const THEN ~From.const
    ELSE IF To.name = "char" /\ To.const THEN TRUE
    ELSE \/ is_same_remove_cv(From, To)
         \/ is_allowed_pointer_conversion(From, To)
         \/ is_allowed_integral_conversion(From, To)

\* enable_if of the converting constructors
converting_ctor_enabled(From, To) ==
    /\ From # To
    /\ is_allowed_element_type_conversion(From, To)

\* reinterpret_cast<pointer>(other.data()) is ill-formed when it casts away
\* the const of the element type
reinterpret_cast_ok(From, To) == ~(From.const /\ ~To.const)

(* ------------------------ contract checking --------------------------- *)

\* Expects(cond) of gsl_assert.h: the call proceeds only when cond holds,
\* otherwise the contract-violation policy ends it
Expects(cond) == cond

NoType == [name |-> "none", const |-> FALSE]

(* ------------------------- extent abstraction ------------------------- *)

\* extent_type<Extent>::size(): the type's constant, or the stored size_
extent_size(ext) ==
    IF ext.extent = dynamic_extent THEN ext.size_ ELSE ext.extent

\* a fixed extent accepting any size that fits
fixed_extent_check_at_most(Extent, sz) == Expects(sz <= Extent)

\* Expects() of extent_type<Extent>(index_type size), Extent fixed
fixed_extent_check(Extent, sz) == Expects(sz = Extent)

\* Expects() of extent_type<dynamic_extent>(index_type size)
dynamic_extent_check(sz) == Expects(sz >= 0)

\* extent_type<Extent>(index_type size); a fixed extent stores nothing
extent_type_from_size(Extent, sz) ==
    IF Extent = dynamic_extent
    THEN [ok |-> dynamic_extent_check(sz),
          ext |-> [extent |-> dynamic_extent, size_ |-> sz]]
    ELSE [ok |-> fixed_extent_check(Extent, sz),
          ext |-> [extent |-> Extent, size_ |-> 0]]

\* static_assert of extent_type<Extent>(extent_type<Other>)
extent_static_assert(Extent, Other) ==
    Extent = dynamic_extent \/ Other = Extent

\* extent_type<Extent>(extent_type<Other>), Other a fixed extent
extent_type_from_extent(Extent, Other) ==
    IF Extent = dynamic_extent
    THEN [extent |-> dynamic_extent, size_ |-> Other]
    ELSE [extent |-> Extent, size_ |-> 0]

(* --------------------------- storage layout --------------------------- *)

\* storage_type(pointer data, OtherExtentType ext)
storage_type(ptr, ext) == [data |-> ptr, ext |-> ext]

data(v) == v.data
size(v) == extent_size(v.ext)
length(v) == size(v)
empty(v) == size(v) = 0

NoView == storage_type(nullptr, [extent |-> dynamic_extent, size_ |-> 0])
Ok(v) == [ok |-> TRUE, view |-> v]
ContractViolation == [ok |-> FALSE, view |-> NoView]

(* ---------------------------- constructors ---------------------------- *)

\* span(): storage_(nullptr, extent_type<0>())
span_default(Extent) ==
    Ok(storage_type(nullptr, extent_type_from_extent(Extent, 0)))

\* the body's check with the null test left out
ptr_count_check_no_null(ptr, count) == Expects(count >= 0)

\* Expects() in the body of span(pointer ptr, index_type count)
ptr_count_check(ptr, count) ==
    Expects((ptr = nullptr /\ count = 0) \/ (ptr # nullptr /\ count >= 0))

\* span(pointer ptr, index_type count): the member initialiser runs the
\* extent's check, then the body runs its own
span_ptr_count(Extent, ptr, count) ==
    LET e == extent_type_from_size(Extent, count)
    IN  IF ~e.ok THEN ContractViolation
        ELSE IF ~ptr_count_check(ptr, count) THEN ContractViolation
        ELSE Ok(storage_type(ptr, e.ext))

\* std::distance(firstElem, lastElem): the difference of two pointers into
\* the same array, 0 for equal pointers, undefined otherwise
distance(firstElem, lastElem) ==
    IF firstElem = lastElem THEN {0}
    ELSE IF firstElem # nullptr /\ lastElem # nullptr
         THEN {lastElem - firstElem}
         ELSE index_type

\* span(pointer firstElem, pointer lastElem), dist the distance computed
span_ptr_pair(Extent, firstElem, dist) ==
    LET e == extent_type_from_size(Extent, dist)
    IN  IF ~e.ok THEN ContractViolation
        ELSE Ok(storage_type(firstElem, e.ext))

\* span(element_type (&arr)[N]) and the two std::array forms:
\* storage_(&arr[0], extent_type<N>())
span_array(Extent, arr, N) ==
    Ok(storage_type(arr, extent_type_from_extent(Extent, N)))

\* span(Container& cont) and span(const Container& cont):
\* span(cont.data(), cont.size())
span_container(Extent, cont) ==
    span_ptr_count(Extent, cont.data, cont.size)

\* the conversion taking the source's static extent for its length
span_convert_static_extent(Extent, other) ==
    LET e == extent_type_from_size(Extent, other.ext.extent)
    IN  IF ~e.ok THEN ContractViolation
        ELSE Ok(storage_type(data(other), e.ext))

\* span(const span<OtherElementType, OtherExtent>& other) and its rvalue
\* form: storage_(reinterpret_cast<pointer>(other.data()), other.length())
span_convert(Extent, other) ==
    LET e == extent_type_from_size(Extent, length(other))
    IN  IF ~e.ok THEN ContractViolation
        ELSE Ok(storage_type(data(other), e.ext))

\* span(const span& other) = default
span_copy(other) == Ok(other)

(* ------------------------------ subviews ------------------------------ *)

\* Expects() of first and last, both forms
count_check(v, count) == Expects(count >= 0 /\ count <= size(v))

\* first(index_type count)
first(v, count) ==
    IF ~count_check(v, count) THEN ContractViolation
    ELSE span_ptr_count(dynamic_extent, data(v), count)

\* first<Count>()
first_t(v, Count) ==
    IF ~count_check(v, Count) THEN ContractViolation
    ELSE span_ptr_count(Count, data(v), Count)

\* the pointer last returns
last_ptr(v, count) ==
    IF count = 0 THEN data(v) ELSE data(v) + (size(v) - count)

\* last(index_type count)
last(v, count) ==
    IF ~count_check(v, count) THEN ContractViolation
    ELSE span_ptr_count(dynamic_extent, last_ptr(v, count), count)

\* last<Count>()
last_t(v, Count) ==
    IF ~count_check(v, Count) THEN ContractViolation
    ELSE span_ptr_count(Count, last_ptr(v, Count), Count)

\* offset + count in index_type: the sum, or anything when it overflows
plus(a, b) == IF a + b \in index_type THEN {a + b} ELSE index_type

\* whether subspan's Expects() evaluates offset + count (&& and ||
\* short-circuit)
sum_evaluated(v, offset, count) ==
    /\ offset = 0 \/ (offset > 0 /\ offset <= size(v))
    /\ count # dynamic_extent
    /\ count >= 0

\* Expects() of subspan, both forms; sum is the value of offset + count
subspan_check(v, offset, count, sum) ==
    Expects(/\ offset = 0 \/ (offset > 0 /\ offset <= size(v))
            /\ count = dynamic_extent \/ (count >= 0 /\ sum <= size(v)))

\* the size subspan passes to the constructor
subspan_size(v, offset, count) ==
    IF count = dynamic_extent THEN size(v) - offset ELSE count

\* subspan(index_type offset, index_type count = dynamic_extent)
subspan(v, offset, count, sum) ==
    IF ~subspan_check(v, offset, count, sum) THEN ContractViolation
    ELSE span_ptr_count(dynamic_extent, data(v) + offset,
                        subspan_size(v, offset, count))

\* subspan<Offset, Count = dynamic_extent>()
subspan_t(v, Offset, Count, sum) ==
    IF ~subspan_check(v, Offset, Count, sum) THEN ContractViolation
    ELSE span_ptr_count(Count, data(v) + Offset,
                        subspan_size(v, Offset, Count))

(* --------------------------- element access --------------------------- *)

\* the bounds check one element too wide
index_check_inclusive(v, idx) == Expects(idx >= 0 /\ idx <= size(v))

\* Expects() of operator[]
index_check(v, idx) == Expects(idx >= 0 /\ idx < size(v))

\* operator[](index_type idx): the address of storage_.data()[idx]
element(v, idx) == data(v) + idx

(* ------------------------------- state -------------------------------- *)
(* cur is the view the program holds.  call is the operation in progress: *)
(* its name op, arguments a and b, the extent E of the span type it       *)
(* constructs, whether it returned (ok) or signalled a contract violation,*)
(* the view res it returned, the address ref of the element an access     *)
(* refers to, and the element types of a conversion.  An operation never  *)
(* changes the view it is applied to; the program then either assigns the *)
(* returned view to cur or drops it.                                      *)

Record(op, a, b, E, ok, res, ref, From, To) ==
    [op |-> op, a |-> a, b |-> b, E |-> E, ok |-> ok, res |-> res,
     ref |-> ref, from |-> From, to |-> To]

Idle == Record("idle", 0, 0, dynamic_extent, TRUE, NoView, 0, NoType, NoType)

\* an operation that returns a view ran with result r
Returns(op, a, b, E, r, From, To) ==
    /\ r.ok => InAddressSpace(data(r.view))
    /\ call' = Record(op, a, b, E, r.ok, r.view, 0, From, To)
    /\ cur' = cur

\* the containers a caller passes: data() and size() of a contiguous
\* sequence, data() null only when it is empty
Containers ==
    {[data |-> nullptr, size |-> 0]} \cup
    {[data |-> BufBase, size |-> n] : n \in 0..BufLen}

\* the Count arguments first<Count>, last<Count> and subspan<Offset, Count>
\* compile with: span<element_type, Count> needs Count >= 0 or dynamic_extent
TemplateCounts == {c \in index_type : c >= 0 \/ c = dynamic_extent}

Init ==
    /\ cur = span_default(dynamic_extent).view
    /\ call = Idle

DefaultCtor ==
    /\ call = Idle
    /\ \E E \in Extents :
        /\ extent_static_assert(E, 0)
        /\ Returns("span()", 0, 0, E, span_default(E), NoType, NoType)

NullptrCtor ==
    /\ call = Idle
    /\ \E E \in Extents :
        /\ extent_static_assert(E, 0)
        /\ Returns("span(nullptr_t)", 0, 0, E, span_default(E), NoType, NoType)

PtrCountCtor ==
    /\ call = Idle
    /\ \E E \in Extents, ptr \in Pointers, count \in index_type :
        Returns("span(ptr,count)", ptr, count, E,
                span_ptr_count(E, ptr, count), NoType, NoType)

PtrPairCtor ==
    /\ call = Idle
    /\ \E E \in Extents, firstElem \in Pointers, lastElem \in Pointers :
        \E dist \in distance(firstElem, lastElem) :
            Returns("span(first,last)", firstElem, lastElem, E,
                    span_ptr_pair(E, firstElem, dist), NoType, NoType)

ArrayCtor ==
    /\ call = Idle
    /\ \E E \in Extents, N \in 1..BufLen :
        /\ extent_static_assert(E, N)
        /\ Returns("span(arr)", BufBase, N, E,
                   span_array(E, BufBase, N), NoType, NoType)

ContainerCtor ==
    /\ call = Idle
    /\ \E E \in Extents, cont \in Containers :
        Returns("span(cont)", cont.data, cont.size, E,
                span_container(E, cont), NoType, NoType)

CopyCtor ==
    /\ call = Idle
    /\ Returns("span(span)", 0, 0, cur.ext.extent, span_copy(cur), NoType, NoType)

ConvertCtor ==
    /\ call = Idle
    /\ \E E \in Extents, From \in Types, To \in Types :
        /\ converting_ctor_enabled(From, To)
        /\ reinterpret_cast_ok(From, To)
        /\ Returns("span(other)", 0, 0, E, span_convert(E, cur), From, To)

First ==
    /\ call = Idle
    /\ \E count \in index_type :
        Returns("first", count, 0, dynamic_extent, first(cur, count),
                NoType, NoType)

FirstT ==
    /\ call = Idle
    /\ \E Count \in TemplateCounts :
        Returns("first<>", Count, 0, Count, first_t(cur, Count),
                NoType, NoType)

Last ==
    /\ call = Idle
    /\ \E count \in index_type :
        Returns("last", count, 0, dynamic_extent, last(cur, count),
                NoType, NoType)

LastT ==
    /\ call = Idle
    /\ \E Count \in TemplateCounts :
        Returns("last<>", Count, 0, Count, last_t(cur, Count),
                NoType, NoType)

Subspan ==
    /\ call = Idle
    /\ \E offset \in index_type, count \in index_type :
        \E sum \in IF sum_evaluated(cur, offset, count)
                   THEN plus(offset, count) ELSE {0} :
            Returns("subspan", offset, count, dynamic_extent,
                    subspan(cur, offset, count, sum), NoType, NoType)

SubspanT ==
    /\ call = Idle
    /\ \E Offset \in index_type, Count \in TemplateCounts :
        \E sum \in IF sum_evaluated(cur, Offset, Count)
                   THEN plus(Offset, Count) ELSE {0} :
            Returns("subspan<>", Offset, Count, Count,
                    subspan_t(cur, Offset, Count, sum), NoType, NoType)

\* an element access ran on cur
Access(op, idx) ==
    /\ call' = Record(op, idx, 0, cur.ext.extent, index_check(cur, idx), NoView,
                      IF index_check(cur, idx) THEN element(cur, idx) ELSE 0,
                      NoType, NoType)
    /\ cur' = cur

\* operator[](idx)
Index ==
    /\ call = Idle
    /\ \E idx \in index_type : Access("operator[]", idx)

\* operator()(idx): this->operator[](idx)
CallIndex ==
    /\ call = Idle
    /\ \E idx \in index_type : Access("operator()", idx)

AccessOps == {"operator[]", "operator()"}

\* span& operator=(const span&): the program goes on with the returned view
Assign ==
    /\ call.op \notin AccessOps \cup {"idle"}
    /\ call.ok
    /\ cur' = call.res
    /\ call' = Idle

\* the program drops the result, or handles the contract violation
Discard ==
    /\ call # Idle
    /\ call' = Idle
    /\ cur' = cur

Next ==
    \/ DefaultCtor
    \/ NullptrCtor
    \/ PtrCountCtor
    \/ PtrPairCtor
    \/ ArrayCtor
    \/ ContainerCtor
    \/ CopyCtor
    \/ ConvertCtor
    \/ First
    \/ FirstT
    \/ Last
    \/ LastT
    \/ Subspan
    \/ SubspanT
    \/ Index
    \/ CallIndex
    \/ Assign
    \/ Discard

Spec == Init /\ [][Next]_vars

(* ---------------- the element-type compatibility rule ----------------- *)
(* is_allowed_element_type_conversion is a compile-time function of two   *)
(* element types: SpecConv draws the two types and evaluates it.          *)

InitConv ==
    /\ cur = NoView
    /\ \E From \in Types, To \in Types :
           call = Record("types", 0, 0, dynamic_extent, TRUE, NoView, 0, From, To)

Evaluate ==
    /\ call.op = "types"
    /\ call' = Record("is_allowed_element_type_conversion", 0, 0,
                      dynamic_extent,
                      is_allowed_element_type_conversion(call.from, call.to),
                      NoView, 0, call.from, call.to)
    /\ cur' = cur

NextConv == Evaluate

SpecConv == InitConv /\ [][NextConv]_vars

(* ============================== claims ================================ *)

\* the invariants of a view: size >= 0, and data null only if size == 0
ViewInvariant(v) == size(v) >= 0 /\ (data(v) = nullptr => size(v) = 0)

SliceOps == {"first", "first<>", "last", "last<>", "subspan", "subspan<>"}

\* C1: constructing a dynamic-extent view from (pointer, count) succeeds
\* exactly when (pointer is null and count == 0) or (pointer is non-null and
\* count >= 0); on success size() == count and data() == pointer, otherwise
\* the construction signals ContractViolation and yields no view.
C1_PtrCountConstruction ==
    (call.op = "span(ptr,count)" /\ call.E = dynamic_extent) =>
        /\ call.ok <=> \/ call.a = nullptr /\ call.b = 0
                       \/ call.a # nullptr /\ call.b >= 0
        /\ call.ok => size(call.res) = call.b /\ data(call.res) = call.a
        /\ ~call.ok => call.res = NoView

C1_Witness ==
    /\ call.op = "span(ptr,count)"
    /\ call.E = dynamic_extent
    /\ call.a = BufBase
    /\ call.b = BufLen
    /\ call.ok
    /\ size(call.res) = BufLen

\* C2: for every view v and index i, v[i] and v(i) succeed exactly when
\* 0 <= i < v.size(), and then refer to the element at address data() + i;
\* otherwise the access signals ContractViolation.
C2_ElementAccess ==
    call.op \in AccessOps =>
        /\ call.ok <=> (0 <= call.a /\ call.a < size(cur))
        /\ call.ok => call.ref = data(cur) + call.a

C2_Witness ==
    /\ call.op = "operator()"
    /\ call.ok
    /\ call.a = BufLen - 1
    /\ size(cur) = BufLen
    /\ call.ref = BufBase + BufLen - 1

\* C3: for every view v (here: every view that satisfies the invariants)
\* and every (offset, count) of index_type, subspan succeeds exactly when
\* 0 <= offset <= v.size() and (count is dynamic_extent, or 0 <= count and
\* the mathematical sum offset + count <= v.size()); on success the result
\* has data() == v.data() + offset and size() == count, or v.size() - offset
\* when count is dynamic_extent.
C3_SubspanContract ==
    (call.op \in {"subspan", "subspan<>"} /\ ViewInvariant(cur)) =>
        /\ call.ok <=>
              /\ 0 <= call.a /\ call.a <= size(cur)
              /\ \/ call.b = dynamic_extent
                 \/ 0 <= call.b /\ call.a + call.b <= size(cur)
        /\ call.ok =>
              /\ data(call.res) = data(cur) + call.a
              /\ size(call.res) = IF call.b = dynamic_extent
                                  THEN size(cur) - call.a ELSE call.b

\* C4: for every view v and count k, last succeeds exactly when
\* 0 <= k <= v.size(); for k > 0 the result has size() == k and
\* data() == v.data() + (v.size() - k); for k == 0 it has size() == 0 and
\* data() == v.data().
C4_LastContract ==
    call.op \in {"last", "last<>"} =>
        /\ call.ok <=> (0 <= call.a /\ call.a <= size(cur))
        /\ (call.ok /\ call.a > 0) =>
              /\ size(call.res) = call.a
              /\ data(call.res) = data(cur) + (size(cur) - call.a)
        /\ (call.ok /\ call.a = 0) =>
              /\ size(call.res) = 0
              /\ data(call.res) = data(cur)

\* C5: every view a construction form produces without a ContractViolation,
\* and every view reached from it by first/last/subspan calls, has
\* size() >= 0 and data() null only if size() == 0.
C5_ViewInvariants ==
    /\ ViewInvariant(cur)
    /\ (call.ok /\ call.op \notin AccessOps \cup {"idle", "types"}) =>
          ViewInvariant(call.res)

\* C6: slicing only narrows: a successful first, last or subspan call on a
\* view v that satisfies the invariants returns a view r with
\* v.data() <= r.data() and r.data() + r.size() <= v.data() + v.size().
\* Every view a slice returns can be assigned to cur and sliced again, so
\* the statement for one call is the statement for every finite sequence.
C6_SlicingNarrows ==
    (call.op \in SliceOps /\ call.ok /\ ViewInvariant(cur)) =>
        /\ data(cur) <= data(call.res)
        /\ data(call.res) + size(call.res) <= data(cur) + size(cur)

\* the runtime count a construction of a fixed-extent span is given, where
\* the call determines it
CountOps ==
    {"span(ptr,count)", "span(cont)", "span(first,last)", "span(other)",
     "first<>", "last<>", "subspan<>"}

HasCount ==
    call.op = "span(first,last)" =>
        (call.a = call.b \/ (call.a # nullptr /\ call.b # nullptr))

Count ==
    CASE call.op \in {"span(ptr,count)", "span(cont)", "subspan<>"} -> call.b
      [] call.op = "span(first,last)" -> call.b - call.a
      [] call.op = "span(other)" -> size(cur)
      [] OTHER -> call.a

\* C7: for a span type with fixed extent E every successfully constructed
\* value has size() == E: construction from a runtime count (pointer +
\* count, pointer pair, container, conversion from another view, a
\* compile-time slice) signals ContractViolation whenever the count differs
\* from E.
C7_FixedExtent ==
    (call.E # dynamic_extent /\ call.op \in CountOps) =>
        /\ call.ok => size(call.res) = call.E
        /\ (HasCount /\ Count # call.E) => ~call.ok

C7_Witness ==
    /\ call.op = "span(other)"
    /\ cur.ext.extent = dynamic_extent
    /\ size(cur) = BufLen
    /\ call.E = BufLen - 1
    /\ ~call.ok

\* C8: a converting construction from a view of a compatible element type
\* preserves data() and size(); it succeeds whenever the target extent is
\* dynamic or equals the source's size.  In particular a fixed-extent view
\* of an array of length N converted to a dynamic-extent view has size N and
\* the array's address.
C8_ConversionPreserves ==
    call.op = "span(other)" =>
        /\ call.ok =>
              /\ data(call.res) = data(cur)
              /\ size(call.res) = size(cur)
        /\ (call.E = dynamic_extent \/ call.E = size(cur)) => call.ok

C8_Witness ==
    /\ call.op = "span(other)"
    /\ cur = span_array(BufLen, BufBase, BufLen).view
    /\ call.E = dynamic_extent
    /\ call.from = [name |-> "int", const |-> FALSE]
    /\ call.to = [name |-> "unsigned", const |-> TRUE]
    /\ call.ok
    /\ size(call.res) = BufLen
    /\ data(call.res) = BufBase

\* C9: for every view v, v.first(v.size()) and v.subspan(0, v.size()) return
\* a view with the same data() and size() as v (so subspan(0, size()) applied
\* to the result of any subspan(o, c) returns that result again); and for
\* every 0 <= k <= v.size(), v.first(k) has data() == v.data() and
\* size() == k.
C9_IdentityAndPrefix ==
    /\ (call.op = "first" /\ 0 <= call.a /\ call.a <= size(cur)) =>
          /\ call.ok
          /\ data(call.res) = data(cur)
          /\ size(call.res) = call.a
    /\ (call.op = "subspan" /\ call.a = 0 /\ call.b = size(cur)) =>
          /\ call.ok
          /\ data(call.res) = data(cur)
          /\ size(call.res) = size(cur)

\* C10: the element-type compatibility predicate never permits a conversion
\* that removes const-qualification: with From const-qualified and To not,
\* is_allowed_element_type_conversion<From, To> is false.
C10_NeverRemovesConst ==
    (/\ call.op = "is_allowed_element_type_conversion"
     /\ call.from.const
     /\ ~call.to.const) => ~call.ok

====
